---- MODULE Spec2Model ----
(***************************************************************************)
(* WinsyncLoader: a native launcher that scans the registry for a Python   *)
(* install holding winsync, builds a command line, spawns python.exe,      *)
(* waits for it and reports every failure in a message box.                *)
(*                                                                         *)
(* Strings are sequences of atoms.  An atom is one character (its TLA+     *)
(* string has length 1), a C string literal of the program (its length is  *)
(* the literal's length), or one of two long path pieces "L" and "K" that  *)
(* stand for LongDirLen and LongKeyLen characters, so that the MAX_PATH    *)
(* limits of the program's buffers are reached with short sequences.       *)
(* The registry, the file system and the child process are the             *)
(* environment: every OS call draws its answer when it is made (each       *)
(* registry item is read at most once in a run).                           *)
(***************************************************************************)
EXTENDS Integers, Sequences, FiniteSets, TLC

VARIABLES
    tcharSize,    \* sizeof(TCHAR) of the build: 1 (ANSI) or 2 (UNICODE)
    lpCmdLine,    \* the launcher's own command line (unreferenced)
    pc,           \* position of the single thread
    ret,          \* find_winsync: DWORD ret
    root,         \* find_winsync: HKEY root (0 = keys[0], 1 = keys[1])
    index,        \* find_winsync: DWORD index
    name_size,    \* find_winsync: DWORD name_size
    path_size,    \* find_winsync: DWORD path_size
    keyname,      \* find_winsync: TCHAR keyname[MAX_PATH]
    name,         \* find_winsync: TCHAR name[MAX_PATH]
    token,        \* find_winsync: TCHAR *token
    tok_context,  \* find_winsync: TCHAR *tok_context (rest of paths)
    path,         \* _tWinMain: TCHAR path[MAX_PATH], the out-parameter
    appname,      \* _tWinMain: TCHAR appname[MAX_PATH]
    child,        \* the spawned process: "none", "running", "exited"
    lastError,    \* the thread's last-error value (GetLastError)
    box,          \* the message box shown
    nBoxes,       \* number of message boxes shown
    exitCode,     \* argument of the pending ExitProcess
    exitStatus,   \* status the process ended with
    lastCall,     \* history: the most recent OS call and its outcome
    done,         \* history: stages of _tWinMain completed
    openRes,      \* history: result of each RegOpenKeyEx
    scanned,      \* history: roots handed to RegEnumKeyEx
    envFault,     \* history: a registry read was denied, InstallPath was
                  \* missing, or a value does not fit a MAX_PATH buffer
    matchFound,   \* history: GetFileAttributes found site-packages\winsync
    installValue, \* history: InstallPath value held by the registry
    spawn         \* history: arguments of the CreateProcess calls

vars == <<tcharSize, lpCmdLine, pc, ret, root, index, name_size, path_size,
          keyname, name, token, tok_context, path, appname, child, lastError,
          box, nBoxes, exitCode, exitStatus, lastCall, done, openRes, scanned,
          envFault, matchFound, installValue, spawn>>

(***************************************************************************)
(* Bounds of the model.                                                    *)
(***************************************************************************)
MaxInstalls == 2     \* subkeys a root may hold
MaxLen      == 3     \* atoms in a registry string value
LongDirLen  == 236   \* characters the atom "L" stands for
LongKeyLen  == 250   \* characters the atom "K" stands for

(***************************************************************************)
(* Program and OS constants.                                               *)
(***************************************************************************)
MAX_PATH               == 260
ERROR_SUCCESS          == 0
ERROR_FILE_NOT_FOUND   == 2
ERROR_ACCESS_DENIED    == 5
ERROR_INVALID_HANDLE   == 6
ERROR_MORE_DATA        == 234
ERROR_NO_MORE_ITEMS    == 259
INVALID_FILE_ATTRIBUTES == -1     \* 0xFFFFFFFF as a 32-bit pattern
WAIT_OBJECT_0          == 0
WAIT_ABANDONED         == 128
WAIT_TIMEOUT           == 258
WAIT_FAILED            == -1      \* 0xFFFFFFFF as a 32-bit pattern
MSG_EXIT_STATUS        == 255

PythonPathSuffix  == <<"\\PythonPath">>
InstallPathSuffix == <<"\\InstallPath">>
SitePackages      == <<"\\site-packages\\winsync">>
PythonExe         == <<"python.exe">>
RunArgs           == <<" -m winsync.run">>
NotFoundMsg       == "Could not find a WinSync install"
AbandonedMsg      == "Wait abandoned"
TimeoutMsg        == "Timout reached, should have waited indefinately."

NULL   == <<"NULL">>       \* the null pointer
Uninit == <<"?">>          \* a buffer never written
NoBox  == [title |-> "", text |-> "", code |-> 0]
NoCall == [flip |-> 0, fn |-> "", site |-> 0, ok |-> TRUE, ret |-> 0, err |-> 0]
NoSpawn == <<>>

(***************************************************************************)
(* Strings.                                                                *)
(***************************************************************************)
AtomLen(a) == IF a = "L" THEN LongDirLen ELSE IF a = "K" THEN LongKeyLen ELSE Len(a)

RECURSIVE StrLen(_)
StrLen(s) == IF s = <<>> THEN 0 ELSE AtomLen(Head(s)) + StrLen(Tail(s))

\* _tcscpy_s / _tcscat_s succeed only when the result and its terminator
\* fit in the destination of cap characters.
StrFits(s, cap) == StrLen(s) + 1 <= cap
StrCat(d, s)    == d \o s

\* Bytes RegGetValue needs for a REG_SZ value: the characters and the
\* terminating null, in TCHARs.
ValueBytes(v) == (StrLen(v) + 1) * tcharSize

RECURSIVE SkipDelims(_)
SkipDelims(s) == IF s # <<>> /\ Head(s) = ";" THEN SkipDelims(Tail(s)) ELSE s

RECURSIVE TokenOf(_)
TokenOf(s) == IF s = <<>> \/ Head(s) = ";" THEN <<>> ELSE <<Head(s)>> \o TokenOf(Tail(s))

\* _tcstok_s(str, ";", &ctx): skips leading delimiters, returns NULL at the
\* end of the string, else the run up to the next delimiter; ctx is what
\* follows that delimiter.
StrTok(s) ==
    LET t == SkipDelims(s)
        k == TokenOf(t)
    IN  IF t = <<>>
        THEN [token |-> NULL, context |-> <<>>]
        ELSE [token |-> k,
              context |-> IF Len(k) = Len(t) THEN <<>>
                          ELSE SubSeq(t, Len(k) + 2, Len(t))]

(***************************************************************************)
(* The environment's answers.                                              *)
(***************************************************************************)
PathAtoms == {"a", ";", "L"}
RECURSIVE StringsUpTo(_)
StringsUpTo(n) ==
    IF n = 0 THEN {<<>>}
    ELSE LET S == StringsUpTo(n - 1)
         IN  S \cup {Append(s, a) : s \in {t \in S : Len(t) = n - 1}, a \in PathAtoms}
RegStrings  == StringsUpTo(MaxLen)
KeyNames    == {<<"2">>, <<"3", "x">>, <<"K">>}
OpenResults == {ERROR_SUCCESS, ERROR_FILE_NOT_FOUND, ERROR_ACCESS_DENIED}
LastErrors  == {ERROR_ACCESS_DENIED, ERROR_INVALID_HANDLE}
CmdLines    == {<<>>, <<"a">>}
ReturnValues == {0, 1}     \* _tWinMain ends without a return statement
STATUS_INVALID_CRUNTIME_PARAMETER == -1073740777   \* 0xC0000417 as a 32-bit pattern
FILE_ATTRIBUTE_DIRECTORY == 16

(***************************************************************************)
(* Exits.                                                                  *)
(***************************************************************************)
\* Faulty variant: the exit status is a fixed 1, not the error code.
error_code_exit_ExitOne(lpszFunction, error_code) ==
    /\ box' = [title |-> "Error", text |-> lpszFunction, code |-> error_code]
    /\ nBoxes' = nBoxes + 1
    /\ exitCode' = 1
    /\ pc' = "msgbox"

\* error_code_exit: formats "<function> failed with error <code>: ...",
\* shows it in a box titled "Error" and calls ExitProcess(error_code).
error_code_exit(lpszFunction, error_code) ==
    /\ box' = [title |-> "Error", text |-> lpszFunction, code |-> error_code]
    /\ nBoxes' = nBoxes + 1
    /\ exitCode' = error_code
    /\ pc' = "msgbox"

\* error_exit: error_code_exit with GetLastError(), read after the failing call.
error_exit(lpszFunction) == error_code_exit(lpszFunction, lastError')


\* msg_exit: shows msg in a box titled "ERROR" and calls ExitProcess(255).
msg_exit(msg) ==
    /\ box' = [title |-> "ERROR", text |-> msg, code |-> 0]
    /\ nBoxes' = nBoxes + 1
    /\ exitCode' = MSG_EXIT_STATUS
    /\ pc' = "msgbox"

\* A secure-CRT string function whose result does not fit calls the invalid
\* parameter handler, which ends the process without a message box of the
\* launcher.
InvalidParameter ==
    /\ pc' = "crashed"
    /\ exitStatus' = STATUS_INVALID_CRUNTIME_PARAMETER
    /\ UNCHANGED <<box, nBoxes, exitCode>>

\* The record of an OS call: where it is made, whether it reported success,
\* the value it returned and the error code it reported; flip changes with
\* every call, so that two calls in a row never leave the same record.
Call(fn, site, ok, retv, err) ==
    lastCall' = [flip |-> 1 - lastCall.flip, fn |-> fn, site |-> site,
                 ok |-> ok, ret |-> retv, err |-> err]

Init ==
    /\ tcharSize \in {1, 2}
    /\ lpCmdLine \in CmdLines
    /\ pc = "open0"
    /\ ret = 0
    /\ root = -1
    /\ index = 0
    /\ name_size = MAX_PATH
    /\ path_size = MAX_PATH
    /\ keyname = Uninit
    /\ name = Uninit
    /\ token = NULL
    /\ tok_context = <<>>
    /\ path = Uninit
    /\ appname = Uninit
    /\ child = "none"
    /\ lastError = 0
    /\ box = NoBox
    /\ nBoxes = 0
    /\ exitCode = 0
    /\ exitStatus = -1
    /\ lastCall = NoCall
    /\ done = {}
    /\ openRes = <<-1, -1>>
    /\ scanned = {}
    /\ envFault = FALSE
    /\ matchFound = FALSE
    /\ installValue = Uninit
    /\ spawn = NoSpawn

(***************************************************************************)
(* find_winsync                                                            *)
(***************************************************************************)
\* Faulty variant: the WOW64 key is opened whether or not the first open failed.
RegOpenKeyEx0_AlwaysFallback ==
    /\ pc = "open0"
    /\ \E r \in OpenResults :
        /\ ret' = r
        /\ openRes' = [openRes EXCEPT ![1] = r]
        /\ Call("RegOpenKeyEx", 94, r = ERROR_SUCCESS, r, r)
        /\ root' = IF r = ERROR_SUCCESS THEN 0 ELSE root
        /\ pc' = "open1"
    /\ UNCHANGED <<tcharSize, lpCmdLine, index, name_size, path_size, keyname,
                   name, token, tok_context, path, appname, child, lastError,
                   box, nBoxes, exitCode, exitStatus, done, scanned, envFault,
                   matchFound, installValue, spawn>>

\* RegOpenKeyEx(HKEY_LOCAL_MACHINE, keys[0], ...) and the test that follows.
RegOpenKeyEx0 ==
    /\ pc = "open0"
    /\ \E r \in OpenResults :
        /\ ret' = r
        /\ openRes' = [openRes EXCEPT ![1] = r]
        /\ Call("RegOpenKeyEx", 94, r = ERROR_SUCCESS, r, r)
        /\ root' = IF r = ERROR_SUCCESS THEN 0 ELSE root
        /\ pc' = IF r = ERROR_SUCCESS THEN "enum_first" ELSE "open1"
    /\ UNCHANGED <<tcharSize, lpCmdLine, index, name_size, path_size, keyname,
                   name, token, tok_context, path, appname, child, lastError,
                   box, nBoxes, exitCode, exitStatus, done, scanned, envFault,
                   matchFound, installValue, spawn>>

\* RegOpenKeyEx(HKEY_LOCAL_MACHINE, keys[1], ...), made when the first open
\* failed, and the exit when it fails too.
RegOpenKeyEx1 ==
    /\ pc = "open1"
    /\ \E r \in OpenResults :
        /\ ret' = r
        /\ openRes' = [openRes EXCEPT ![2] = r]
        /\ Call("RegOpenKeyEx", 100, r = ERROR_SUCCESS, r, r)
        /\ IF r = ERROR_SUCCESS
           THEN /\ root' = 1
                /\ pc' = "enum_first"
                /\ UNCHANGED <<box, nBoxes, exitCode>>
           ELSE /\ root' = root
                /\ error_code_exit("RegOpenKeyEx", r)
    /\ UNCHANGED <<tcharSize, lpCmdLine, index, name_size, path_size, keyname,
                   name, token, tok_context, path, appname, child, lastError,
                   exitStatus, done, scanned, envFault, matchFound,
                   installValue, spawn>>

\* Faulty variant: the index is not advanced.
NextIndex_Stuck(i) == i

\* index++ in the two RegEnumKeyEx calls.
NextIndex(i) == i + 1

\* RegEnumKeyEx(root, index++, keyname, &name_size, ...) with name_size = size
\* on entry, then the while test, the start of the loop body (the PythonPath
\* key name) or the exits after the loop.
RegEnumKeyEx(site, size) ==
    /\ index' = NextIndex(index)
    /\ scanned' = scanned \cup {root}
    /\ \/ \E k \in KeyNames :
            /\ index < MaxInstalls
            /\ IF StrLen(k) + 1 > size
               THEN /\ ret' = ERROR_MORE_DATA
                    /\ Call("RegEnumKeyEx", site, FALSE, ERROR_MORE_DATA, ERROR_MORE_DATA)
                    /\ error_code_exit("RegEnumKeyEx", ERROR_MORE_DATA)
                    /\ name_size' = size
                    /\ UNCHANGED <<keyname, name, exitStatus, envFault>>
               ELSE /\ ret' = ERROR_SUCCESS
                    /\ Call("RegEnumKeyEx", site, TRUE, ERROR_SUCCESS, ERROR_SUCCESS)
                    /\ keyname' = k
                    /\ name_size' = StrLen(k)
                    /\ envFault' = envFault
                    /\ IF StrFits(StrCat(k, PythonPathSuffix), MAX_PATH)
                       THEN /\ name' = StrCat(k, PythonPathSuffix)
                            /\ pc' = "getpp"
                            /\ UNCHANGED <<box, nBoxes, exitCode, exitStatus>>
                       ELSE /\ name' = <<>>
                            /\ InvalidParameter
       \/ /\ ret' = ERROR_NO_MORE_ITEMS
          /\ Call("RegEnumKeyEx", site, FALSE, ERROR_NO_MORE_ITEMS, ERROR_NO_MORE_ITEMS)
          /\ msg_exit(NotFoundMsg)
          /\ name_size' = size
          /\ UNCHANGED <<keyname, name, exitStatus, envFault>>
       \/ /\ ret' = ERROR_ACCESS_DENIED
          /\ Call("RegEnumKeyEx", site, FALSE, ERROR_ACCESS_DENIED, ERROR_ACCESS_DENIED)
          /\ envFault' = TRUE
          /\ error_code_exit("RegEnumKeyEx", ERROR_ACCESS_DENIED)
          /\ name_size' = size
          /\ UNCHANGED <<keyname, name, exitStatus>>
    /\ UNCHANGED <<tcharSize, lpCmdLine, root, path_size, token, tok_context,
                   path, appname, child, lastError, done, openRes, matchFound,
                   installValue, spawn>>

\* The first enumeration, before the loop.
EnumFirst ==
    /\ pc = "enum_first"
    /\ RegEnumKeyEx(106, name_size)

\* The end of the loop body: name_size is reset, then the next enumeration.
EnumNext ==
    /\ pc = "enum_next"
    /\ RegEnumKeyEx(151, MAX_PATH)

\* After a token that did not match, or the first token: where the inner
\* loop goes.
AfterToken(t) == IF t = NULL THEN "enum_next" ELSE "probe"

\* RegGetValue(root, name, NULL, RRF_RT_REG_SZ, NULL, paths, &path_size) for
\* <keyname>\PythonPath, the tests on its result and the first _tcstok_s.
RegGetValuePythonPath ==
    /\ pc = "getpp"
    /\ \/ /\ ret' = ERROR_FILE_NOT_FOUND
          /\ Call("RegGetValue", 113, FALSE, ERROR_FILE_NOT_FOUND, ERROR_FILE_NOT_FOUND)
          /\ pc' = "enum_next"
          /\ UNCHANGED <<path_size, token, tok_context, box, nBoxes, exitCode, envFault>>
       \/ /\ ret' = ERROR_ACCESS_DENIED
          /\ Call("RegGetValue", 113, FALSE, ERROR_ACCESS_DENIED, ERROR_ACCESS_DENIED)
          /\ envFault' = TRUE
          /\ error_code_exit("RegGetValue", ERROR_ACCESS_DENIED)
          /\ UNCHANGED <<path_size, token, tok_context>>
       \/ \E v \in RegStrings :
            /\ path_size' = ValueBytes(v)
            /\ envFault' = (envFault \/ ~StrFits(v, MAX_PATH))
            /\ IF ValueBytes(v) > path_size
               THEN /\ ret' = ERROR_MORE_DATA
                    /\ Call("RegGetValue", 113, FALSE, ERROR_MORE_DATA, ERROR_MORE_DATA)
                    /\ error_code_exit("RegGetValue", ERROR_MORE_DATA)
                    /\ UNCHANGED <<token, tok_context>>
               ELSE /\ ret' = ERROR_SUCCESS
                    /\ Call("RegGetValue", 113, TRUE, ERROR_SUCCESS, ERROR_SUCCESS)
                    /\ token' = StrTok(v).token
                    /\ tok_context' = StrTok(v).context
                    /\ pc' = AfterToken(StrTok(v).token)
                    /\ UNCHANGED <<box, nBoxes, exitCode>>
    /\ UNCHANGED <<tcharSize, lpCmdLine, root, index, name_size, keyname, name,
                   path, appname, child, lastError, exitStatus, done, openRes,
                   scanned, matchFound, installValue, spawn>>

\* One turn of the inner loop: path = token + "\site-packages\winsync",
\* GetFileAttributes(path), then either the InstallPath key name or the next
\* token.
ProbeToken ==
    /\ pc = "probe"
    /\ IF ~StrFits(StrCat(token, SitePackages), MAX_PATH)
       THEN /\ path' = <<>>
            /\ InvalidParameter
            /\ UNCHANGED <<ret, name, token, tok_context, lastError, lastCall,
                           matchFound>>
       ELSE /\ path' = StrCat(token, SitePackages)
            /\ \/ /\ ret' = FILE_ATTRIBUTE_DIRECTORY
                  /\ Call("GetFileAttributes", 126, TRUE, FILE_ATTRIBUTE_DIRECTORY, 0)
                  /\ matchFound' = TRUE
                  /\ IF StrFits(StrCat(keyname, InstallPathSuffix), MAX_PATH)
                     THEN /\ name' = StrCat(keyname, InstallPathSuffix)
                          /\ pc' = "getip"
                          /\ UNCHANGED <<box, nBoxes, exitCode, exitStatus>>
                     ELSE /\ name' = <<>>
                          /\ InvalidParameter
                  /\ UNCHANGED <<token, tok_context, lastError>>
               \/ /\ ret' = INVALID_FILE_ATTRIBUTES
                  /\ lastError' = ERROR_FILE_NOT_FOUND
                  /\ Call("GetFileAttributes", 126, FALSE, INVALID_FILE_ATTRIBUTES,
                          ERROR_FILE_NOT_FOUND)
                  /\ token' = StrTok(tok_context).token
                  /\ tok_context' = StrTok(tok_context).context
                  /\ pc' = AfterToken(StrTok(tok_context).token)
                  /\ UNCHANGED <<name, matchFound, box, nBoxes, exitCode, exitStatus>>
    /\ UNCHANGED <<tcharSize, lpCmdLine, root, index, name_size, path_size,
                   keyname, appname, child, done, openRes, scanned, envFault,
                   installValue, spawn>>

\* find_winsync returns: its locals are gone.
FrameGone ==
    /\ ret' = 0
    /\ root' = -1
    /\ index' = 0
    /\ name_size' = 0
    /\ path_size' = 0
    /\ keyname' = Uninit
    /\ name' = Uninit
    /\ token' = NULL
    /\ tok_context' = <<>>

\* RegGetValue(root, name, NULL, RRF_RT_REG_SZ, NULL, path, &path_size) for
\* <keyname>\InstallPath, the exit when it fails and the return.
RegGetValueInstallPath ==
    /\ pc = "getip"
    /\ \/ \E e \in {ERROR_FILE_NOT_FOUND, ERROR_ACCESS_DENIED} :
            /\ ret' = e
            /\ Call("RegGetValue", 133, FALSE, e, e)
            /\ envFault' = TRUE
            /\ error_code_exit("RegGetValue (installpath)", e)
            /\ UNCHANGED <<root, index, name_size, path_size, keyname, name,
                           token, tok_context, path, done, installValue>>
       \/ \E v \in RegStrings :
            /\ envFault' = (envFault \/ ~StrFits(v, MAX_PATH))
            /\ IF ValueBytes(v) > path_size
               THEN /\ ret' = ERROR_MORE_DATA
                    /\ path_size' = ValueBytes(v)
                    /\ Call("RegGetValue", 133, FALSE, ERROR_MORE_DATA, ERROR_MORE_DATA)
                    /\ error_code_exit("RegGetValue (installpath)", ERROR_MORE_DATA)
                    /\ UNCHANGED <<root, index, name_size, keyname, name, token,
                                   tok_context, path, done, installValue>>
               ELSE /\ Call("RegGetValue", 133, TRUE, ERROR_SUCCESS, ERROR_SUCCESS)
                    /\ installValue' = v
                    /\ path' = v
                    /\ done' = done \cup {"located"}
                    /\ pc' = "build"
                    /\ FrameGone
                    /\ UNCHANGED <<box, nBoxes, exitCode>>
    /\ UNCHANGED <<tcharSize, lpCmdLine, appname, child, lastError, exitStatus,
                   openRes, scanned, matchFound, spawn>>

(***************************************************************************)
(* _tWinMain after find_winsync                                            *)
(***************************************************************************)
\* Faulty variant: the launcher's own arguments are passed on to python.
BuildCommandLine_AppendArgs ==
    /\ pc = "build"
    /\ IF StrFits(StrCat(StrCat(StrCat(path, PythonExe), RunArgs), lpCmdLine), MAX_PATH)
       THEN /\ appname' = StrCat(StrCat(StrCat(path, PythonExe), RunArgs), lpCmdLine)
            /\ done' = done \cup {"built"}
            /\ pc' = "spawn"
            /\ UNCHANGED <<box, nBoxes, exitCode, exitStatus>>
       ELSE /\ appname' = <<>>
            /\ done' = done
            /\ InvalidParameter
    /\ UNCHANGED <<tcharSize, lpCmdLine, ret, root, index, name_size, path_size,
                   keyname, name, token, tok_context, path, child, lastError,
                   lastCall, openRes, scanned, envFault, matchFound,
                   installValue, spawn>>

\* appname = path + "python.exe" + " -m winsync.run", by _tcscpy_s and two
\* _tcscat_s into a MAX_PATH buffer.
BuildCommandLine ==
    /\ pc = "build"
    /\ IF /\ StrFits(path, MAX_PATH)
          /\ StrFits(StrCat(path, PythonExe), MAX_PATH)
          /\ StrFits(StrCat(StrCat(path, PythonExe), RunArgs), MAX_PATH)
       THEN /\ appname' = StrCat(StrCat(path, PythonExe), RunArgs)
            /\ done' = done \cup {"built"}
            /\ pc' = "spawn"
            /\ UNCHANGED <<box, nBoxes, exitCode, exitStatus>>
       ELSE /\ appname' = <<>>
            /\ done' = done
            /\ InvalidParameter
    /\ UNCHANGED <<tcharSize, lpCmdLine, ret, root, index, name_size, path_size,
                   keyname, name, token, tok_context, path, child, lastError,
                   lastCall, openRes, scanned, envFault, matchFound,
                   installValue, spawn>>

\* Faulty variant: a failed CreateProcess is not tested and the wait follows.
CreateProcess_IgnoreFailure ==
    /\ pc = "spawn"
    /\ spawn' = Append(spawn, [cmd |-> appname, cwd |-> path])
    /\ \/ /\ Call("CreateProcess", 57, TRUE, 1, 0)
          /\ child' = "running"
          /\ done' = done \cup {"spawned"}
          /\ pc' = "wait"
          /\ UNCHANGED <<lastError, box, nBoxes, exitCode>>
       \/ \E e \in LastErrors :
            /\ lastError' = e
            /\ Call("CreateProcess", 57, FALSE, 0, e)
            /\ pc' = "wait"
            /\ UNCHANGED <<child, done, box, nBoxes, exitCode>>
    /\ UNCHANGED <<tcharSize, lpCmdLine, ret, root, index, name_size, path_size,
                   keyname, name, token, tok_context, path, appname,
                   exitStatus, openRes, scanned, envFault, matchFound,
                   installValue>>

\* CreateProcess(NULL, appname, ..., path, &info, &processInfo) and the exit
\* when it fails.
CreateProcess ==
    /\ pc = "spawn"
    /\ spawn' = Append(spawn, [cmd |-> appname, cwd |-> path])
    /\ \/ /\ Call("CreateProcess", 57, TRUE, 1, 0)
          /\ child' = "running"
          /\ done' = done \cup {"spawned"}
          /\ pc' = "wait"
          /\ UNCHANGED <<lastError, box, nBoxes, exitCode>>
       \/ \E e \in LastErrors :
            /\ lastError' = e
            /\ Call("CreateProcess", 57, FALSE, 0, e)
            /\ error_exit("CreateProcess")
            /\ UNCHANGED <<child, done>>
    /\ UNCHANGED <<tcharSize, lpCmdLine, ret, root, index, name_size, path_size,
                   keyname, name, token, tok_context, path, appname,
                   exitStatus, openRes, scanned, envFault, matchFound,
                   installValue>>

\* The spawned python process ends.
ChildExit ==
    /\ child = "running"
    /\ child' = "exited"
    /\ UNCHANGED <<tcharSize, lpCmdLine, pc, ret, root, index, name_size,
                   path_size, keyname, name, token, tok_context, path, appname,
                   lastError, box, nBoxes, exitCode, exitStatus, lastCall, done,
                   openRes, scanned, envFault, matchFound, installValue, spawn>>

\* Faulty variant: WAIT_TIMEOUT leaves the switch instead of exiting.
WaitForSingleObject_TimeoutFallsThrough ==
    /\ pc = "wait"
    /\ \/ /\ child = "exited"
          /\ Call("WaitForSingleObject", 64, TRUE, WAIT_OBJECT_0, 0)
          /\ done' = done \cup {"waited"}
          /\ pc' = "closeP"
          /\ UNCHANGED <<lastError, box, nBoxes, exitCode>>
       \/ /\ Call("WaitForSingleObject", 64, FALSE, WAIT_ABANDONED, 0)
          /\ msg_exit(AbandonedMsg)
          /\ UNCHANGED <<lastError, done>>
       \/ /\ Call("WaitForSingleObject", 64, FALSE, WAIT_TIMEOUT, 0)
          /\ pc' = "closeP"
          /\ UNCHANGED <<lastError, done, box, nBoxes, exitCode>>
       \/ \E e \in LastErrors :
            /\ lastError' = e
            /\ Call("WaitForSingleObject", 64, FALSE, WAIT_FAILED, e)
            /\ error_exit("WaitForSingleObject")
            /\ done' = done
    /\ UNCHANGED <<tcharSize, lpCmdLine, ret, root, index, name_size, path_size,
                   keyname, name, token, tok_context, path, appname, child,
                   exitStatus, openRes, scanned, envFault, matchFound,
                   installValue, spawn>>

\* switch (WaitForSingleObject(processInfo.hProcess, INFINITE)): the wait
\* returns WAIT_OBJECT_0 only once the child has ended; the three other
\* results exit.
WaitForSingleObject ==
    /\ pc = "wait"
    /\ \/ /\ child = "exited"
          /\ Call("WaitForSingleObject", 64, TRUE, WAIT_OBJECT_0, 0)
          /\ done' = done \cup {"waited"}
          /\ pc' = "closeP"
          /\ UNCHANGED <<lastError, box, nBoxes, exitCode>>
       \/ /\ Call("WaitForSingleObject", 64, FALSE, WAIT_ABANDONED, 0)
          /\ msg_exit(AbandonedMsg)
          /\ UNCHANGED <<lastError, done>>
       \/ /\ Call("WaitForSingleObject", 64, FALSE, WAIT_TIMEOUT, 0)
          /\ msg_exit(TimeoutMsg)
          /\ UNCHANGED <<lastError, done>>
       \/ \E e \in LastErrors :
            /\ lastError' = e
            /\ Call("WaitForSingleObject", 64, FALSE, WAIT_FAILED, e)
            /\ error_exit("WaitForSingleObject")
            /\ done' = done
    /\ UNCHANGED <<tcharSize, lpCmdLine, ret, root, index, name_size, path_size,
                   keyname, name, token, tok_context, path, appname, child,
                   exitStatus, openRes, scanned, envFault, matchFound,
                   installValue, spawn>>

\* Faulty variant: a failed CloseHandle of the process handle is not tested.
CloseProcessHandle_IgnoreFailure ==
    /\ pc = "closeP"
    /\ \/ /\ Call("CloseHandle", 71, TRUE, 1, 0)
          /\ done' = done \cup {"closedProcess"}
          /\ pc' = "closeT"
          /\ UNCHANGED <<lastError, box, nBoxes, exitCode>>
       \/ \E e \in LastErrors :
            /\ lastError' = e
            /\ Call("CloseHandle", 71, FALSE, 0, e)
            /\ pc' = "closeT"
            /\ UNCHANGED <<done, box, nBoxes, exitCode>>
    /\ UNCHANGED <<tcharSize, lpCmdLine, ret, root, index, name_size, path_size,
                   keyname, name, token, tok_context, path, appname, child,
                   exitStatus, openRes, scanned, envFault, matchFound,
                   installValue, spawn>>

\* CloseHandle(processInfo.hProcess) and the exit when it fails.
CloseProcessHandle ==
    /\ pc = "closeP"
    /\ \/ /\ Call("CloseHandle", 71, TRUE, 1, 0)
          /\ done' = done \cup {"closedProcess"}
          /\ pc' = "closeT"
          /\ UNCHANGED <<lastError, box, nBoxes, exitCode>>
       \/ \E e \in LastErrors :
            /\ lastError' = e
            /\ Call("CloseHandle", 71, FALSE, 0, e)
            /\ error_exit("CloseHandle (process)")
            /\ done' = done
    /\ UNCHANGED <<tcharSize, lpCmdLine, ret, root, index, name_size, path_size,
                   keyname, name, token, tok_context, path, appname, child,
                   exitStatus, openRes, scanned, envFault, matchFound,
                   installValue, spawn>>

\* CloseHandle(processInfo.hThread), the exit when it fails, and the end of
\* _tWinMain, which returns no value: the process status is whatever the
\* build leaves in the return register.
CloseThreadHandle ==
    /\ pc = "closeT"
    /\ \/ /\ Call("CloseHandle", 73, TRUE, 1, 0)
          /\ done' = done \cup {"closedThread"}
          /\ pc' = "exited"
          /\ exitStatus' \in ReturnValues
          /\ UNCHANGED <<lastError, box, nBoxes, exitCode>>
       \/ \E e \in LastErrors :
            /\ lastError' = e
            /\ Call("CloseHandle", 73, FALSE, 0, e)
            /\ error_exit("CloseHandle (thread)")
            /\ UNCHANGED <<done, exitStatus>>
    /\ UNCHANGED <<tcharSize, lpCmdLine, ret, root, index, name_size, path_size,
                   keyname, name, token, tok_context, path, appname, child,
                   openRes, scanned, envFault, matchFound, installValue, spawn>>

\* The user dismisses the message box; MessageBox returns and the exit
\* function calls ExitProcess with its status.
DismissMessageBox ==
    /\ pc = "msgbox"
    /\ pc' = "exited"
    /\ exitStatus' = exitCode
    /\ UNCHANGED <<tcharSize, lpCmdLine, ret, root, index, name_size, path_size,
                   keyname, name, token, tok_context, path, appname, child,
                   lastError, box, nBoxes, exitCode, lastCall, done, openRes,
                   scanned, envFault, matchFound, installValue, spawn>>

Next ==
    \/ RegOpenKeyEx0
    \/ RegOpenKeyEx1
    \/ EnumFirst
    \/ EnumNext
    \/ RegGetValuePythonPath
    \/ ProbeToken
    \/ RegGetValueInstallPath
    \/ BuildCommandLine
    \/ CreateProcess
    \/ ChildExit
    \/ WaitForSingleObject
    \/ CloseProcessHandle
    \/ CloseThreadHandle
    \/ DismissMessageBox

Spec == Init /\ [][Next]_vars

\* The launcher's thread keeps running, the child ends and a message box is
\* dismissed.
Launcher ==
    \/ RegOpenKeyEx0 \/ RegOpenKeyEx1 \/ EnumFirst \/ EnumNext
    \/ RegGetValuePythonPath \/ ProbeToken \/ RegGetValueInstallPath
    \/ BuildCommandLine \/ CreateProcess \/ WaitForSingleObject
    \/ CloseProcessHandle \/ CloseThreadHandle

FairSpec ==
    /\ Spec
    /\ WF_vars(Launcher)
    /\ WF_vars(ChildExit)
    /\ WF_vars(DismissMessageBox)

(***************************************************************************)
(* Properties                                                              *)
(***************************************************************************)
\* The step makes the OS call fn.
Called(fn) == lastCall'.flip # lastCall.flip /\ lastCall'.fn = fn

FindPcs == {"open0", "open1", "enum_first", "enum_next", "getpp", "probe", "getip"}
Ended   == pc \in {"exited", "crashed"}

\* C1: the steps happen in the order locate, build command line, spawn,
\* wait, close handles: CreateProcess is called only right after
\* find_winsync returned with an install path and the command line was
\* built, and never twice; WaitForSingleObject only right after a
\* CreateProcess that succeeded; the process handle is closed only after a
\* wait that returned with the child signalled, and the thread handle only
\* after the process handle was closed.
C1_StepOrder ==
    [][ /\ Called("CreateProcess") =>
              /\ lastCall.fn = "RegGetValue" /\ lastCall.site = 133 /\ lastCall.ok
              /\ {"located", "built"} \subseteq done
              /\ path = installValue
              /\ spawn = <<>>
        /\ Called("WaitForSingleObject") =>
              /\ lastCall.fn = "CreateProcess" /\ lastCall.ok
              /\ child # "none"
        /\ (Called("CloseHandle") /\ lastCall'.site = 71) =>
              /\ lastCall.fn = "WaitForSingleObject" /\ lastCall.ok
              /\ lastCall.ret = WAIT_OBJECT_0
              /\ child = "exited"
        /\ (Called("CloseHandle") /\ lastCall'.site = 73) =>
              /\ lastCall.fn = "CloseHandle" /\ lastCall.site = 71 /\ lastCall.ok
        /\ Len(spawn') <= 1
      ]_vars

\* C1 witness: a run that went through every stage and returned.
C1_Witness ==
    /\ pc = "exited"
    /\ done = {"located", "built", "spawned", "waited", "closedProcess", "closedThread"}
    /\ Len(spawn) = 1

\* The failures the scan goes on after: the first RegOpenKeyEx, RegGetValue
\* reporting a missing PythonPath, and GetFileAttributes.
Tolerated(c) ==
    \/ c.fn = "RegOpenKeyEx" /\ c.site = 94
    \/ c.fn = "RegGetValue" /\ c.site = 113 /\ c.ret = ERROR_FILE_NOT_FOUND
    \/ c.fn = "GetFileAttributes"

\* The box names the call that failed.
Describes(b, c) ==
    \/ c.fn = "RegOpenKeyEx" /\ b.title = "Error" /\ b.text = "RegOpenKeyEx" /\ b.code = c.err
    \/ c.fn = "RegEnumKeyEx" /\ c.ret = ERROR_NO_MORE_ITEMS /\ b.title = "ERROR" /\ b.text = NotFoundMsg
    \/ c.fn = "RegEnumKeyEx" /\ c.ret # ERROR_NO_MORE_ITEMS /\ b.title = "Error"
         /\ b.text = "RegEnumKeyEx" /\ b.code = c.err
    \/ c.fn = "RegGetValue" /\ c.site = 113 /\ b.title = "Error" /\ b.text = "RegGetValue" /\ b.code = c.err
    \/ c.fn = "RegGetValue" /\ c.site = 133 /\ b.title = "Error"
         /\ b.text = "RegGetValue (installpath)" /\ b.code = c.err
    \/ c.fn = "CreateProcess" /\ b.title = "Error" /\ b.text = "CreateProcess" /\ b.code = c.err
    \/ c.fn = "WaitForSingleObject" /\ c.ret = WAIT_ABANDONED /\ b.title = "ERROR" /\ b.text = AbandonedMsg
    \/ c.fn = "WaitForSingleObject" /\ c.ret = WAIT_TIMEOUT /\ b.title = "ERROR" /\ b.text = TimeoutMsg
    \/ c.fn = "WaitForSingleObject" /\ c.ret = WAIT_FAILED /\ b.title = "Error"
         /\ b.text = "WaitForSingleObject" /\ b.code = c.err
    \/ c.fn = "CloseHandle" /\ c.site = 71 /\ b.title = "Error"
         /\ b.text = "CloseHandle (process)" /\ b.code = c.err
    \/ c.fn = "CloseHandle" /\ c.site = 73 /\ b.title = "Error"
         /\ b.text = "CloseHandle (thread)" /\ b.code = c.err

\* C2 as claimed: whenever an OS call of the launcher has reported failure,
\* the launcher is showing its one message box or has exited.
C2_AllFailuresTerminal ==
    ~lastCall.ok => (pc \in {"msgbox", "exited"} /\ nBoxes = 1)

\* C2 amended: every failure other than the three the scan tolerates is
\* terminal: the launcher shows one message box describing the failed call
\* and exits, and no OS call follows the failed one.
C2_FatalFailuresTerminal ==
    /\ [](( ~lastCall.ok /\ ~Tolerated(lastCall)) =>
            /\ pc \in {"msgbox", "exited"}
            /\ nBoxes = 1
            /\ Describes(box, lastCall))
    /\ [][ (~lastCall.ok /\ ~Tolerated(lastCall)) =>
              /\ lastCall' = lastCall
              /\ pc' \in {"msgbox", "exited"}
              /\ box' = box /\ nBoxes' = nBoxes /\ spawn' = spawn
         ]_vars

\* C2 witness: a failed CreateProcess ended the run.
C2_Witness ==
    /\ pc = "exited"
    /\ lastCall.fn = "CreateProcess"
    /\ ~lastCall.ok
    /\ exitStatus = ERROR_ACCESS_DENIED

\* C3 as claimed: with every value fitting a MAX_PATH buffer (here even in
\* MAX_PATH bytes, the size RegGetValue is first told) and no registry read
\* denied, once an entry with site-packages\winsync was found, find_winsync
\* returns with the InstallPath value of that install.
C3_ReturnsInstallPath ==
    (matchFound /\ ~envFault /\ path_size <= MAX_PATH /\ pc \notin {"getip", "crashed"}) =>
        ("located" \in done /\ installValue # Uninit)

\* C4: the launcher gets past the wait only when the child has ended, and an
\* exit while the child runs is one of the three error exits of the wait.
C4_BlocksUntilChildExit ==
    /\ (pc \in {"closeP", "closeT"} \/ done \cap {"waited", "closedProcess", "closedThread"} # {})
          => child = "exited"
    /\ (pc \in {"msgbox", "exited"} /\ child = "running") =>
          /\ lastCall.fn = "WaitForSingleObject"
          /\ lastCall.ret \in {WAIT_ABANDONED, WAIT_TIMEOUT, WAIT_FAILED}
          /\ box.text \in {AbandonedMsg, TimeoutMsg, "WaitForSingleObject"}
    /\ child = "running" => "closedThread" \notin done

\* C4 witness: the wait returned after the child ended and the launcher is
\* closing the handles.
C4_Witness ==
    /\ pc = "closeP"
    /\ child = "exited"
    /\ lastCall.fn = "WaitForSingleObject"
    /\ lastCall.ok

\* C5 as claimed: when a root opened, no entry with site-packages\winsync was
\* found, no registry read was denied and every value fits (even in MAX_PATH
\* bytes), the run ends with the box 'Could not find a WinSync install' and
\* without CreateProcess.
C5_NotFoundBox ==
    (pc = "exited" /\ 0 \in {openRes[1], openRes[2]} /\ ~matchFound /\ ~envFault
        /\ path_size <= MAX_PATH) =>
        (box.text = NotFoundMsg /\ nBoxes = 1 /\ spawn = <<>>)

\* C6: every CreateProcess call is given the install path that RegGetValue
\* read, followed by python.exe and the fixed argument, as its command line,
\* and that install path as its working directory.
C6_CommandLine ==
    \A i \in 1..Len(spawn) :
        /\ installValue # Uninit
        /\ spawn[i].cmd = installValue \o <<"python.exe", " -m winsync.run">>
        /\ spawn[i].cwd = installValue

\* C6 witness: CreateProcess was called by a launcher that was itself given
\* arguments.
C6_Witness ==
    /\ Len(spawn) = 1
    /\ lpCmdLine # <<>>
    /\ StrLen(spawn[1].cmd) > StrLen(PythonExe) + StrLen(RunArgs)

\* C7 as claimed: a step of the scan of an install that finds no match, with
\* no read denied and every value fitting (even in MAX_PATH bytes), goes on
\* with the scan: to the next entry or to the next install.
C7_SkipNotFatal ==
    [][ (pc \in {"getpp", "probe"} /\ ~envFault' /\ ~matchFound' /\ pc' # "crashed"
            /\ path_size' <= MAX_PATH)
            => pc' \in {"probe", "enum_next"} ]_vars

\* C8: the WOW64 key is opened only after the first open failed; only the
\* root that opened is enumerated, the first one whenever it opened; and
\* when both opens fail the run ends with a RegOpenKeyEx box carrying the
\* second open's code, before any enumeration.
C8_RootSelection ==
    /\ openRes[2] # -1 => openRes[1] \notin {-1, ERROR_SUCCESS}
    /\ Cardinality(scanned) <= 1
    /\ scanned \subseteq {0, 1}
    /\ openRes[1] = ERROR_SUCCESS => scanned \subseteq {0}
    /\ 1 \in scanned => openRes[2] = ERROR_SUCCESS
    /\ (openRes[1] \notin {-1, ERROR_SUCCESS} /\ openRes[2] \notin {-1, ERROR_SUCCESS}) =>
          /\ pc \in {"msgbox", "exited"}
          /\ box = [title |-> "Error", text |-> "RegOpenKeyEx", code |-> openRes[2]]
          /\ exitCode = openRes[2]
          /\ scanned = {}
          /\ index = 0

\* C8 witness: both opens failed, with different codes, and the run ended.
C8_Witness ==
    /\ openRes = <<ERROR_FILE_NOT_FOUND, ERROR_ACCESS_DENIED>>
    /\ pc = "exited"

\* C9: a run that ended without completing _tWinMain showed exactly one
\* message box, and its status is the failed call's error code, or 255 for
\* the message-only failures; it is never 0.
C9_FailureExitStatus ==
    /\ nBoxes <= 1
    /\ pc = "msgbox" => (nBoxes = 1 /\ ~lastCall.ok)
    /\ (pc = "exited" /\ "closedThread" \notin done) =>
          /\ nBoxes = 1
          /\ ~lastCall.ok
          /\ exitStatus # 0
          /\ IF \/ lastCall.fn = "RegEnumKeyEx" /\ lastCall.ret = ERROR_NO_MORE_ITEMS
                \/ lastCall.fn = "WaitForSingleObject"
                     /\ lastCall.ret \in {WAIT_ABANDONED, WAIT_TIMEOUT}
             THEN exitStatus = 255
             ELSE /\ lastCall.fn \in {"RegOpenKeyEx", "RegEnumKeyEx", "RegGetValue",
                                      "CreateProcess", "WaitForSingleObject", "CloseHandle"}
                  /\ exitStatus = lastCall.err

\* C9 witness: WAIT_FAILED ended the run with the last-error code.
C9_Witness ==
    /\ pc = "exited"
    /\ lastCall.fn = "WaitForSingleObject"
    /\ lastCall.ret = WAIT_FAILED
    /\ exitStatus = ERROR_INVALID_HANDLE

\* C10: every enumeration uses the next index, the inner loop consumes the
\* PythonPath value entry by entry, and, the child ending and the message
\* box being dismissed, every run ends.
C10_Terminates ==
    /\ [][ /\ Called("RegEnumKeyEx") => index' = index + 1
           /\ (pc \in FindPcs /\ pc' \in FindPcs) => index' >= index
           /\ (pc = "probe" /\ pc' = "probe") => Len(tok_context') < Len(tok_context)
         ]_vars
    /\ <>Ended

\* C10 witness: a run that enumerated installs up to the bound and ended.
C10_Witness ==
    /\ pc = "exited"
    /\ index = MaxInstalls + 1
    /\ box.text = NotFoundMsg

====
